---- MODULE Spec2Model ----
(***************************************************************************)
(* Model of the training-log logic of server.ts: the trained_days table,   *)
(* the getNextWorkoutDay helper and the /api/status and /api/complete      *)
(* handlers.                                                               *)
(*                                                                         *)
(* Calendar dates "YYYY-MM-DD" are numbered 0, 1, 2, ... in calendar order *)
(* (the strings compare lexicographically exactly as these numbers do).    *)
(* A JavaScript Date is a timestamp counted in ticks, TicksPerDay ticks to *)
(* the UTC day.  The process time zone is taken to be UTC, so that the     *)
(* local-time setDate(getDate() + 1) adds exactly one UTC day.             *)
(***************************************************************************)
EXTENDS Integers, FiniteSets

(* ------------------------------ bounds -------------------------------- *)

\* Calendar dates 0..MaxDate are the ones the wall clock can show.
MaxDate == 4

\* The same for the runs long enough for the cycle to wrap from 5 to 1.
MaxLongDate == 5

\* Resolution of a Date timestamp: ticks per calendar day.
TicksPerDay == 2

\* How many times the wall clock can be set back.
MaxBack == 1

\* Dates of the stores the pure helper getNextWorkoutDay is tried on.
MaxFnDate == 2

\* Requests that can be in flight (received, not yet handled) at once.
MaxPending == 2

\* Dates of the runs with requests in flight.
MaxRaceDate == 2

(* ------------------------------- state -------------------------------- *)

VARIABLES
    trained_days,   \* the rows of table trained_days
    clock,          \* the UTC date the wall clock, new Date(), shows
    backs,          \* how many times the wall clock has been set back
    resp,           \* the response to the request handled last, while the
                    \* clock still shows the date it was handled on
    pending,        \* requests received by the process and not yet handled
    race,           \* observations of two status requests in flight together
    ret             \* the value getNextWorkoutDay returned last (-1: no call)

vars == <<trained_days, clock, backs, resp, pending, race, ret>>

Dates == 0..MaxLongDate

PlanDays == 1..5

\* A row of trained_days; completed and rescheduled are stored as 0/1.
Row == [date : Dates, planned_day : PlanDays, completed : {0, 1}, rescheduled : {0, 1}]

(* ------------------------- Date conversions --------------------------- *)

\* new Date("YYYY-MM-DD"): midnight UTC of that date.
ParseDate(d) == d * TicksPerDay

\* x.toISOString().split('T')[0]: the UTC date a timestamp falls on.
ToISODate(ts) == ts \div TicksPerDay

\* x.setDate(x.getDate() + 1)
AddDay(ts) == ts + TicksPerDay

(* ----------------------------- the table ------------------------------ *)

\* Fault variant of SelectByDate: the query matches no row.
SelectByDate_NoMatch(T, d) == {x \in T : x.date = d /\ x.date # d}

\* SELECT * FROM trained_days WHERE date = ?  (.get(): no row or one row)
SelectByDate(T, d) == {x \in T : x.date = d}

\* SELECT * FROM trained_days ORDER BY date DESC LIMIT 1
SelectLastEntry(T) == {x \in T : \A y \in T : y.date <= x.date}

\* Fault variant of SelectLastTrained: WHERE completed = 1 left out, so the
\* last assigned row is taken.
SelectLastTrained_AnyRow(T) == {x \in T : \A y \in T : y.date <= x.date}

\* SELECT planned_day FROM trained_days WHERE completed = 1
\*   ORDER BY date DESC LIMIT 1
SelectLastTrained(T) ==
    {x \in T : x.completed = 1 /\ \A y \in T : y.completed = 1 => y.date <= x.date}

\* The one row of a .get() result that has a row.
TheRow(S) == CHOOSE x \in S : TRUE

\* INSERT INTO trained_days: date is the PRIMARY KEY, so an insert for a date
\* that has a row throws SQLITE_CONSTRAINT and the handler is abandoned there
\* (err); statements after a throw do not run.
Insert(S, row) ==
    IF S.err THEN S
    ELSE IF \E x \in S.db : x.date = row.date
         THEN [db |-> S.db, err |-> TRUE]
         ELSE [db |-> S.db \cup {row}, err |-> FALSE]

\* Fault variant of UpdateCompleted: the WHERE clause left out.
UpdateCompleted_AllRows(T, d) == {[x EXCEPT !.completed = 1] : x \in T}

\* Fault variant of UpdateCompleted: the flag is toggled instead of set.
UpdateCompleted_Toggle(T, d) ==
    {IF x.date = d THEN [x EXCEPT !.completed = 1 - @] ELSE x : x \in T}

\* UPDATE trained_days SET completed = 1 WHERE date = ?
UpdateCompleted(T, d) ==
    {IF x.date = d THEN [x EXCEPT !.completed = 1] ELSE x : x \in T}

(* ------------------------- getNextWorkoutDay -------------------------- *)

\* Fault variant of getNextWorkoutDay: the remainder taken after the increment.
getNextWorkoutDay_ModLast(T) ==
    LET lastTrained == SelectLastTrained(T)
    IN  IF lastTrained = {} THEN 1
        ELSE (TheRow(lastTrained).planned_day + 1) % 5

\* Fault variant of getNextWorkoutDay: no remainder, the cycle does not wrap.
getNextWorkoutDay_NoWrap(T) ==
    LET lastTrained == SelectLastTrained(T)
    IN  IF lastTrained = {} THEN 1
        ELSE TheRow(lastTrained).planned_day + 1

getNextWorkoutDay(T) ==
    LET lastTrained == SelectLastTrained(T)
    IN  IF lastTrained = {} THEN 1
        ELSE (TheRow(lastTrained).planned_day % 5) + 1

(* --------------------------- GET /api/status -------------------------- *)

\* Fault variant of BackfillLoop: the loop runs while currentDate <= todayDate.
RECURSIVE BackfillLoop_Inclusive(_, _, _)
BackfillLoop_Inclusive(S, currentDate, todayDate) ==
    IF S.err \/ ~(currentDate <= todayDate) THEN S
    ELSE LET dateStr == ToISODate(currentDate)
             existing == SelectByDate(S.db, dateStr)
             S1 == IF existing = {}
                   THEN Insert(S, [date |-> dateStr,
                                   planned_day |-> getNextWorkoutDay(S.db),
                                   completed |-> 0, rescheduled |-> 1])
                   ELSE S
         IN  BackfillLoop_Inclusive(S1, AddDay(currentDate), todayDate)

\* Fault variant of BackfillLoop: the loop stops one day early.
RECURSIVE BackfillLoop_StopsEarly(_, _, _)
BackfillLoop_StopsEarly(S, currentDate, todayDate) ==
    IF S.err \/ ~(AddDay(currentDate) < todayDate) THEN S
    ELSE LET dateStr == ToISODate(currentDate)
             existing == SelectByDate(S.db, dateStr)
             S1 == IF existing = {}
                   THEN Insert(S, [date |-> dateStr,
                                   planned_day |-> getNextWorkoutDay(S.db),
                                   completed |-> 0, rescheduled |-> 1])
                   ELSE S
         IN  BackfillLoop_StopsEarly(S1, AddDay(currentDate), todayDate)

\* The while loop of the handler: one pass per currentDate < todayDate.
RECURSIVE BackfillLoop(_, _, _)
BackfillLoop(S, currentDate, todayDate) ==
    IF S.err \/ ~(currentDate < todayDate) THEN S
    ELSE LET dateStr == ToISODate(currentDate)
             existing == SelectByDate(S.db, dateStr)
             S1 == IF existing = {}
                   THEN Insert(S, [date |-> dateStr,
                                   planned_day |-> getNextWorkoutDay(S.db),
                                   completed |-> 0, rescheduled |-> 1])
                   ELSE S
         IN  BackfillLoop(S1, AddDay(currentDate), todayDate)

\* INSERT INTO trained_days (date, planned_day) VALUES (?, ?): completed and
\* rescheduled take the DEFAULT 0 of the schema.
TodayRow(today, plannedDay) ==
    [date |-> today, planned_day |-> plannedDay, completed |-> 0, rescheduled |-> 0]

\* Fault variant of StatusLiteral: the literal disagrees with the row inserted.
StatusLiteral_Completed(today, plannedDay) ==
    [date |-> today, planned_day |-> plannedDay, completed |-> 1, rescheduled |-> 0]

\* status = { date: today, planned_day: plannedDay, completed: 0, rescheduled: 0 }
StatusLiteral(today, plannedDay) ==
    [date |-> today, planned_day |-> plannedDay, completed |-> 0, rescheduled |-> 0]

\* The whole handler on table T with the clock showing date today: the table
\* it leaves, whether it threw, the status it answers with, and whether its
\* lookup of today's row found none.
StatusHandler(T, today) ==
    LET S0 == [db |-> T, err |-> FALSE]
        lastEntry == SelectLastEntry(T)
        S1 == IF lastEntry # {} /\ TheRow(lastEntry).date < today
              THEN BackfillLoop(S0, AddDay(ParseDate(TheRow(lastEntry).date)),
                                ParseDate(today))
              ELSE S0
        found == SelectByDate(S1.db, today)
        plannedDay == getNextWorkoutDay(S1.db)
        S2 == IF found = {}
              THEN Insert(S1, TodayRow(today, plannedDay))
              ELSE S1
        status == IF found = {}
                  THEN {StatusLiteral(today, plannedDay)}
                  ELSE found
    IN  [db |-> S2.db, err |-> S2.err, status |-> status,
         absent |-> (~S1.err /\ found = {})]

\* res.json({ status, workouts, diet }), or the 500 of a handler that threw.
StatusResponse(h) ==
    IF h.err THEN [op |-> "error", status |-> {}, again |-> FALSE]
    ELSE [op |-> "status", status |-> h.status, again |-> FALSE]

(* -------------------------- POST /api/complete ------------------------ *)

CompleteHandler(T, today) == UpdateCompleted(T, today)

\* res.json({ success: true })
CompleteResponse(T, today) == [op |-> "success", status |-> {}, again |-> FALSE]

(* ------------------------------ the runs ------------------------------ *)

\* again: the response repeats a status request, the request before it having
\* been a status request on the same date too.
NoResponse == [op |-> "none", status |-> {}, again |-> FALSE]

NoRace == [day |-> -1, handled |-> 0, absent |-> 0]

NoPending == [status |-> 0, complete |-> 0]

\* gym.db starts with an empty trained_days table (CREATE TABLE IF NOT EXISTS).
Init ==
    /\ trained_days = {}
    /\ clock = 0
    /\ backs = 0
    /\ resp = NoResponse
    /\ pending = NoPending
    /\ race = NoRace
    /\ ret = -1

\* The wall clock reaches the next date.
Tick ==
    /\ clock < MaxDate
    /\ clock' = clock + 1
    /\ resp' = NoResponse
    /\ UNCHANGED <<trained_days, backs, pending, race, ret>>

\* The wall clock is set back (the system time is corrected, or the table is
\* used on a host whose clock is behind).
ClockBack ==
    /\ backs < MaxBack
    /\ backs' = backs + 1
    /\ \E t \in 0..(clock - 1) : clock' = t
    /\ resp' = NoResponse
    /\ UNCHANGED <<trained_days, pending, race, ret>>

\* What one GET /api/status does to the table and answers.
StatusEffect ==
    LET h == StatusHandler(trained_days, clock)
    IN  /\ trained_days' = h.db
        /\ resp' = [StatusResponse(h) EXCEPT !.again = (resp.op = "status")]

\* What one POST /api/complete does to the table and answers.
CompleteEffect ==
    /\ trained_days' = CompleteHandler(trained_days, clock)
    /\ resp' = CompleteResponse(trained_days, clock)

\* A GET /api/status request: the handler is synchronous, it runs from its
\* first statement to res.json without yielding to the event loop.
Status ==
    /\ StatusEffect
    /\ UNCHANGED <<clock, backs, pending, race, ret>>

\* A POST /api/complete request.
Complete ==
    /\ CompleteEffect
    /\ UNCHANGED <<clock, backs, pending, race, ret>>

NextMono == Tick \/ Status \/ Complete

Next == Tick \/ ClockBack \/ Status \/ Complete

\* Requests at any wall-clock dates.
Spec == Init /\ [][Next]_vars

\* Requests at wall-clock dates that never decrease.
SpecMono == Init /\ [][NextMono]_vars

\* The wall clock reaches the next date, over the longer range of dates.
TickLong ==
    /\ clock < MaxLongDate
    /\ clock' = clock + 1
    /\ resp' = NoResponse
    /\ UNCHANGED <<trained_days, backs, pending, race, ret>>

NextLong == TickLong \/ ClockBack \/ Status \/ Complete

\* Requests at any wall-clock dates, over the longer range of dates.
SpecLong == Init /\ [][NextLong]_vars

(* ----------------------- requests in flight --------------------------- *)

\* A request reaches the process while others wait for the event loop.
Arrive ==
    /\ pending.status + pending.complete < MaxPending
    /\ \E k \in {"status", "complete"} : pending' = [pending EXCEPT ![k] = @ + 1]
    /\ UNCHANGED <<trained_days, clock, backs, resp, race, ret>>

TickRace ==
    /\ clock < MaxRaceDate
    /\ clock' = clock + 1
    /\ resp' = NoResponse
    /\ race' = IF race.handled = 1 THEN NoRace ELSE race
    /\ UNCHANGED <<trained_days, backs, pending, ret>>

\* The event loop takes a waiting status request and runs its handler.
HandleStatus ==
    /\ pending.status > 0
    /\ pending' = [pending EXCEPT !.status = @ - 1]
    /\ StatusEffect
    /\ LET sawAbsent == IF StatusHandler(trained_days, clock).absent THEN 1 ELSE 0
       IN  race' = IF pending.status >= 2 /\ ~\E x \in trained_days : x.date = clock
                   THEN [day |-> clock, handled |-> 1, absent |-> sawAbsent]
                   ELSE IF race.handled = 1 /\ race.day = clock
                        THEN [race EXCEPT !.handled = 2, !.absent = @ + sawAbsent]
                        ELSE NoRace
    /\ UNCHANGED <<clock, backs, ret>>

\* The event loop takes a waiting complete request and runs its handler.
HandleComplete ==
    /\ pending.complete > 0
    /\ pending' = [pending EXCEPT !.complete = @ - 1]
    /\ CompleteEffect
    /\ UNCHANGED <<clock, backs, race, ret>>

NextRace == Arrive \/ TickRace \/ HandleStatus \/ HandleComplete

SpecRace == Init /\ [][NextRace]_vars

(* ------------------ getNextWorkoutDay on any table -------------------- *)

NoRow == [date |-> -1, planned_day |-> 0, completed |-> 0, rescheduled |-> 0]

\* Every table over the dates 0..MaxFnDate, one row per date at most.
FnTables ==
    LET Cell == [planned_day : PlanDays, completed : {0, 1}, rescheduled : {0, 1}]
                    \cup {NoRow}
    IN  {{[date |-> d, planned_day |-> f[d].planned_day,
           completed |-> f[d].completed, rescheduled |-> f[d].rescheduled]
            : d \in {e \in 0..MaxFnDate : f[e] # NoRow}}
         : f \in [0..MaxFnDate -> Cell]}

InitFn ==
    /\ trained_days \in FnTables
    /\ clock = 0
    /\ backs = 0
    /\ resp = NoResponse
    /\ pending = NoPending
    /\ race = NoRace
    /\ ret = -1

CallGetNextWorkoutDay ==
    /\ ret' = getNextWorkoutDay(trained_days)
    /\ UNCHANGED <<trained_days, clock, backs, resp, pending, race>>

SpecFn == InitFn /\ [][CallGetNextWorkoutDay]_vars

(* ============================ properties ============================== *)

\* The rows marked completed.
Completed(T) == {x \in T : x.completed = 1}

\* The completed row with the greatest date.
LastCompleted(T) ==
    CHOOSE x \in Completed(T) : \A y \in Completed(T) : y.date <= x.date

\* The plan day that follows plan day k in the cycle 1, 2, 3, 4, 5, 1, ...
RotationAfter(k) == IF k = 5 THEN 1 ELSE k + 1

\* The rotation value of a table: 1 with no completed row, else the plan day
\* after that of the last completed row.
Rotation(T) ==
    IF Completed(T) = {} THEN 1 ELSE RotationAfter(LastCompleted(T).planned_day)

\* The dates that have a row.
RowDates(T) == {x.date : x \in T}

\* The greatest date that has a row (of a table with rows).
LatestDate(T) == CHOOSE d \in RowDates(T) : \A e \in RowDates(T) : e <= d

\* The least date that has a row (of a table with rows).
EarliestDate(T) == CHOOSE d \in RowDates(T) : \A e \in RowDates(T) : d <= e

\* Row r is in table T.
Has(T, d, p, c, r) ==
    [date |-> d, planned_day |-> p, completed |-> c, rescheduled |-> r] \in T

\* C1: on every table, getNextWorkoutDay returns 1 when no row is completed,
\* and otherwise k+1 for k in 1..4 and 1 for k = 5, k being the planned_day of
\* the completed row with the greatest date.
C1_NextPlannedDay == ret # -1 => ret = Rotation(trained_days)

\* C1 witness: the call returned 1 for a table whose last completed row has
\* planned_day 5 (the wrap), an earlier date holding a completed row of
\* another plan day.
C1_Witness ==
    /\ ret = 1
    /\ Completed(trained_days) # {}
    /\ LastCompleted(trained_days).planned_day = 5
    /\ \E y \in Completed(trained_days) : y.planned_day = 3

\* C2: from an empty table, after any status and complete requests on any
\* dates, every row has planned_day in 1..5.
C2_PlannedDayInRange == \A x \in trained_days : x.planned_day \in 1..5

\* C2 witness: the cycle has wrapped: a completed row of plan day 5 is
\* followed by a row of plan day 1.
C2_Witness ==
    \E y \in Completed(trained_days) :
        /\ y.planned_day = 5
        /\ \E x \in trained_days : x.date > y.date /\ x.planned_day = 1

\* C3: a status request that follows a status request on the same date, with
\* no request in between, answers with the same record and leaves the table
\* as it was.
C3_StatusIdempotent ==
    [][(resp.op = "status" /\ Status)
          => (trained_days' = trained_days /\ resp'.status = resp.status
              /\ resp'.op = "status")]_vars

\* C3 witness: a repeated status request has answered, after the first one
\* had backfilled a gap and created today's row.
C3_Witness ==
    /\ resp.op = "status"
    /\ resp.again
    /\ resp.status \subseteq trained_days
    /\ \E x \in trained_days : x.rescheduled = 1
    /\ \E x \in resp.status : x.date = clock /\ x.rescheduled = 0

C5_CompleteFrame ==
    [][Complete =>
          /\ RowDates(trained_days') = RowDates(trained_days)
          /\ Cardinality(trained_days') = Cardinality(trained_days)
          /\ \A x \in trained_days :
                IF x.date = clock
                THEN Has(trained_days', clock, x.planned_day, 1, x.rescheduled)
                ELSE x \in trained_days'
          /\ (clock \notin RowDates(trained_days) => trained_days' = trained_days)
      ]_vars

\* C5 witness: a complete request has marked today's row while rows of other
\* dates, not completed, are in the table.
C5_Witness ==
    /\ resp.op = "success"
    /\ \E x \in trained_days : x.date = clock /\ x.completed = 1
    /\ \E x \in trained_days : x.date # clock /\ x.completed = 0 /\ x.rescheduled = 0
    /\ \E x \in trained_days : x.date # clock /\ x.completed = 0 /\ x.rescheduled = 1

\* C6: a complete request on a date that has no row is answered NotFound,
\* not success.
C6_CompleteMissingIsNotFound ==
    [][(Complete /\ clock \notin RowDates(trained_days))
          => resp'.op = "notfound"]_vars

\* C7: with dates that never decrease, every row a status request creates
\* has planned_day the rotation value of the last completed row (1 with
\* none); that value stays the same over status requests and changes, to the
\* next day of the rotation, only by a complete request that marks a row.
C7_CycleAdvancesOnlyOnComplete ==
    [][/\ Status => \A x \in trained_days' \ trained_days :
                        x.planned_day = Rotation(trained_days)
       /\ Rotation(trained_days') # Rotation(trained_days)
             => /\ Complete
                /\ Has(trained_days, clock, Rotation(trained_days), 0, 0)
                      \/ Has(trained_days, clock, Rotation(trained_days), 0, 1)
                /\ Rotation(trained_days') = RotationAfter(Rotation(trained_days))
      ]_vars

\* C7 witness: after a completed day 1, three rows were created by two status
\* requests on different dates (a today row, a gap row, a today row), none
\* completed, all of plan day 2.
C7_Witness ==
    \E d \in Dates :
        /\ Has(trained_days, d, 1, 1, 0)
        /\ Has(trained_days, d + 1, 2, 0, 0)
        /\ Has(trained_days, d + 2, 2, 0, 1)
        /\ Has(trained_days, d + 3, 2, 0, 0)

\* C8: every row stays in the table with the planned_day and rescheduled it
\* has, and its completed never goes from 1 back to 0.
C8_RecordsPersist ==
    [][\A x \in trained_days :
          \E y \in trained_days' :
              /\ y.date = x.date
              /\ y.planned_day = x.planned_day
              /\ y.rescheduled = x.rescheduled
              /\ y.completed >= x.completed]_vars

\* C8 witness: a completed row of an earlier date is still in the table, with
\* rows created after it, after a further complete request on its date.
C8_Witness ==
    /\ resp.op = "success"
    /\ backs > 0
    /\ Has(trained_days, clock, 1, 1, 0)
    /\ \E x \in trained_days : x.date > clock /\ x.planned_day = 2
    /\ \E x \in trained_days : x.date > clock /\ x.planned_day = 3

\* C9 as claimed: two status requests in flight together for the same today,
\* with no row for today, both find the row absent and both attempt the
\* insert.
C9_BothObserveAbsent == race.handled = 2 => race.absent = 2

\* C9 as amended: of two status requests in flight together for the same
\* today with no row for today, exactly one finds the row absent and inserts
\* it, the other finds it present; no insert for a date that has a row is
\* ever attempted.
C9_HandlersDoNotInterleave ==
    /\ race.handled = 2 => race.absent = 1
    /\ resp.op # "error"

\* C9 witness: both requests of such a pair have been handled, and today's
\* row is in the table once.
C9_Witness ==
    /\ race.handled = 2
    /\ race.day = clock
    /\ Cardinality({x \in trained_days : x.date = clock}) = 1
    /\ resp.op = "status"

====
